---- MODULE Spec2Model ----
(***************************************************************************)
(* A model of github.com/outbrain/log (log.go): the leveled logger with a  *)
(* process-wide threshold, the two argument conventions (logEntry and      *)
(* logFormattedEntry), the error passthrough (logErrorEntry) and the       *)
(* process-terminating FATAL family.                                       *)
(*                                                                         *)
(* A Go string is a sequence of tokens.  The tokens "%", " ", "!", "s",    *)
(* "d", "v", "a" are single characters, so that a text produced by one     *)
(* fmt.Sprintf and handed to the next as its format is parsed again        *)
(* character by character, as log.go does at lines 83-85 and 74.  Longer   *)
(* tokens ("MISSING", "NOVERB", "EXTRA", a type name, a level label, a     *)
(* date) stand for runs of characters with no "%" in them.                 *)
(***************************************************************************)
EXTENDS Integers, Sequences, FiniteSets, TLC

\* ------------------------------------------------------------ severities

FATAL == 0
CRITICAL == 1
ERROR == 2
WARNING == 3
NOTICE == 4
INFO == 5
DEBUG == 6

\* LogLevel.String
String(this) ==
    CASE this = FATAL -> "FATAL"
      [] this = CRITICAL -> "CRITICAL"
      [] this = ERROR -> "ERROR"
      [] this = WARNING -> "WARNING"
      [] this = NOTICE -> "NOTICE"
      [] this = INFO -> "INFO"
      [] this = DEBUG -> "DEBUG"
      [] OTHER -> "unknown"

\* How far outside FATAL..DEBUG the integers handed to SetLevel range.
OutOfRange == 1

\* How many lines a caller writes before it starts no further log call.
MaxLines == 1

\* LogLevel is an int: SetLevel takes any of them.
Levels == (FATAL - OutOfRange)..(DEBUG + OutOfRange)

\* ------------------------------------------------------------ values

\* A value passed in args ...interface{}: a Go string or a Go int.
StringArg(text) == [kind |-> "string", text |-> text]
IntArg(text) == [kind |-> "int", text |-> text]

\* The messages, argument lists and errors the callers pass.
Messages == {<<"a">>, <<"%", "s">>, <<"a", "%">>}
ArgLists == {<< >>, <<StringArg(<<"b">>)>>, <<IntArg(<<"5">>)>>}

\* An error value: nil, or a pointer identified by who allocated it and
\* carrying the text its Error() returns.
NilError == [alloc |-> "nil", text |-> << >>]
CallerError(text) == [alloc |-> "caller", text |-> text]
Errors == {NilError} \cup {CallerError(m) : m \in Messages}

\* errors.New mutated: no error for an empty text.
ErrorsNewNilOnEmpty(text) ==
    IF text = << >> THEN NilError ELSE [alloc |-> "errors.New", text |-> text]

\* errors.New(text): a freshly allocated error, never nil, never the caller's.
ErrorsNew(text) == [alloc |-> "errors.New", text |-> text]

\* The readings of the clock, in seconds after 2006-01-02 15:04:05, and
\* time.Now().Format(timeFormat).  No call reads the clock twice and no
\* decision depends on it.
Times == {0}
TimeFormat(now) == <<"2006-01-02", " ", IF now = 0 THEN "15:04:05" ELSE "15:04:06">>

\* ------------------------------------------------------------ fmt.Sprintf

\* The flag characters of a format that occur here: line 83 puts a space
\* after whatever the message ends with.
Flags == {" "}

RECURSIVE SkipFlags(_, _)
SkipFlags(format, i) ==
    IF i <= Len(format) /\ format[i] \in Flags
    THEN SkipFlags(format, i + 1)
    ELSE i

HasFlag(format, from, to) == \E k \in from..(to - 1) : format[k] = " "

GoodVerb(arg, verb) ==
    \/ verb = "v"
    \/ arg.kind = "string" /\ verb = "s"
    \/ arg.kind = "int" /\ verb = "d"

\* fmt's printArg: the operand under a verb, or %!verb(type=value).
PrintArg(arg, verb, space) ==
    IF GoodVerb(arg, verb)
    THEN (IF arg.kind = "int" /\ space THEN <<" ">> ELSE << >>) \o arg.text
    ELSE <<"%", "!", verb, "(", arg.kind, "=">> \o arg.text \o <<")">>

RECURSIVE ExtraArgs(_, _)
ExtraArgs(a, k) ==
    IF k > Len(a) THEN << >>
    ELSE <<a[k].kind, "=">> \o a[k].text
         \o (IF k < Len(a) THEN <<",", " ">> ELSE << >>) \o ExtraArgs(a, k + 1)

\* %!(EXTRA type=value, ...) for the operands no verb consumed.
Extra(a, argNum) ==
    IF argNum <= Len(a)
    THEN <<"%", "!", "(", "EXTRA", " ">> \o ExtraArgs(a, argNum) \o <<")">>
    ELSE << >>

\* fmt's doPrintf from position i of the format, argNum the next operand.
RECURSIVE DoPrintf(_, _, _, _)
DoPrintf(format, a, i, argNum) ==
    IF i > Len(format) THEN Extra(a, argNum)
    ELSE IF format[i] # "%"
    THEN <<format[i]>> \o DoPrintf(format, a, i + 1, argNum)
    ELSE LET j == SkipFlags(format, i + 1) IN
         IF j > Len(format)
         THEN <<"%", "!", "(", "NOVERB", ")">> \o Extra(a, argNum)
         ELSE LET verb == format[j] IN
              IF verb = "%"
              THEN <<"%">> \o DoPrintf(format, a, j + 1, argNum)
              ELSE IF argNum > Len(a)
              THEN <<"%", "!", verb, "(", "MISSING", ")">>
                   \o DoPrintf(format, a, j + 1, argNum)
              ELSE PrintArg(a[argNum], verb, HasFlag(format, i + 1, j))
                   \o DoPrintf(format, a, j + 1, argNum + 1)

Sprintf(format, a) == DoPrintf(format, a, 1, 1)

\* ------------------------------------------------------------ the API

StringFns == {"Debug", "Debugf", "Info", "Infof", "Notice", "Noticef"}
WrapFns == {"Warning", "Warningf", "Error", "Errorf", "Critical", "Criticalf"}
FatalMsgFns == {"Fatal", "Fatalf"}
PassFns == {"Errore", "Criticale"}
FatalFns == FatalMsgFns \cup {"Fatale"}
MsgFns == StringFns \cup WrapFns \cup FatalMsgFns
ErrFns == PassFns \cup {"Fatale"}

\* The entry points mutated: the FATAL family logs at CRITICAL, the level
\* of the functions they were copied from.
FnLevelFatalAsCritical(fn) ==
    CASE fn \in {"Debug", "Debugf"} -> DEBUG
      [] fn \in {"Info", "Infof"} -> INFO
      [] fn \in {"Notice", "Noticef"} -> NOTICE
      [] fn \in {"Warning", "Warningf"} -> WARNING
      [] fn \in {"Error", "Errorf", "Errore"} -> ERROR
      [] OTHER -> CRITICAL

\* The severity each entry point passes down.
FnLevel(fn) ==
    CASE fn \in {"Debug", "Debugf"} -> DEBUG
      [] fn \in {"Info", "Infof"} -> INFO
      [] fn \in {"Notice", "Noticef"} -> NOTICE
      [] fn \in {"Warning", "Warningf"} -> WARNING
      [] fn \in {"Error", "Errorf", "Errore"} -> ERROR
      [] fn \in {"Critical", "Criticalf", "Criticale"} -> CRITICAL
      [] fn \in FatalFns -> FATAL

\* The entry points whose body calls logFormattedEntry directly; every other
\* message function, Fatalf among them, calls logEntry.
CallsLogFormattedEntry(fn) ==
    fn \in {"Debugf", "Infof", "Noticef", "Warningf", "Errorf", "Criticalf"}

\* logEntry, lines 81-84: the message, then " %s" of each argument.
RECURSIVE logEntryString(_, _)
logEntryString(message, args) ==
    IF args = << >> THEN message
    ELSE logEntryString(message \o Sprintf(<<" ", "%", "s">>, <<Head(args)>>),
                        Tail(args))

\* Line 71 mutated: an entry at the threshold itself is dropped too.
SuppressedAtThreshold(logLevel, threshold) == logLevel >= threshold

\* Line 71 mutated: the comparison the wrong way round.
SuppressedReversed(logLevel, threshold) == logLevel < threshold

\* Line 71: the gate of logFormattedEntry.
Suppressed(logLevel, threshold) == logLevel > threshold

\* Line 74: the rendered line.
EntryString(now, logLevel, message, args) ==
    Sprintf(<<"%", "s", " ", "%", "s", " ", "%", "s">>,
            <<StringArg(TimeFormat(now)), StringArg(<<String(logLevel)>>),
              StringArg(Sprintf(message, args))>>)

\* Line 90 mutated: a nil error is logged like any other.
LogsNilError(err) == FALSE

\* Line 90: logErrorEntry returns at once on a nil error.
IsNil(err) == err = NilError

\* Line 94: fmt.Sprintf("%+v", err) of an error is its Error() text.
ErrorText(err) == err.text

\* Line 96: logErrorEntry returns the error it was given.
logErrorEntryResult(err, out) == err

\* Line 61 mutated: the level is clamped into FATAL..DEBUG.
ClampedLevel(logLevel) ==
    IF logLevel < FATAL THEN FATAL ELSE IF logLevel > DEBUG THEN DEBUG ELSE logLevel

\* Line 61: what SetLevel stores.
StoredLevel(logLevel) == logLevel

\* os.Exit mutated: the call comes back.
OsExitReturns(code) == [exited |-> FALSE, code |-> 0]

\* os.Exit(code): the process is gone, with that status.
OsExit(code) == [exited |-> TRUE, code |-> code]

\* ------------------------------------------------------------ state

VARIABLES
    globalLogLevel,  \* the threshold as last stored
    stderr,          \* the lines written to os.Stderr, in order
    exited,          \* os.Exit has been called
    exitCode,        \* with this status
    lines,           \* per caller: how many lines it has written
    pc,              \* per caller: where its current call stands
    frame,           \* per caller: the current (or last) call
    lastSet          \* the argument of the latest SetLevel call, if any

vars == <<globalLogLevel, stderr, lines, exited, exitCode, pc, frame, lastSet>>

SeqCallers == {1}
ConcCallers == {1, 2}

NoReturn == [kind |-> "none", str |-> << >>, err |-> NilError, level |-> 0]
ReturnString(s) == [NoReturn EXCEPT !.kind = "string", !.str = s]
ReturnError(e) == [NoReturn EXCEPT !.kind = "error", !.err = e]
ReturnLevel(l) == [NoReturn EXCEPT !.kind = "LogLevel", !.level = l]

NoFrame ==
    [fn |-> "none", message |-> << >>, args |-> << >>, err |-> NilError,
     logLevel |-> 0, format |-> << >>, fargs |-> << >>, stage |-> 1,
     T |-> 0, reads |-> 0, writes |-> 0, base |-> 0, held |-> {},
     out |-> << >>, ret |-> NoReturn]

InitFor(callers) ==
    /\ globalLogLevel = DEBUG
    /\ stderr = << >>
    /\ lines = [t \in callers |-> 0]
    /\ exited = FALSE
    /\ exitCode = 0
    /\ pc = [t \in callers |-> "idle"]
    /\ frame = [t \in callers |-> NoFrame]
    /\ lastSet = [called |-> FALSE, logLevel |-> 0]

Init == InitFor(SeqCallers)

Callers == DOMAIN pc

Idle(t) == ~exited /\ pc[t] \in {"idle", "done"}
MayLog(t) == lines[t] < MaxLines

\* ------------------------------------------------------------ actions

\* SetLevel, lines 60-62.
SetLevel(t, levels) ==
    /\ Idle(t)
    /\ \E logLevel \in levels :
        LET stored == StoredLevel(logLevel) IN
        /\ globalLogLevel' = stored
        /\ frame' = [u \in Callers |->
                      IF u = t
                      THEN [NoFrame EXCEPT !.fn = "SetLevel", !.logLevel = logLevel]
                      ELSE [frame[u] EXCEPT !.held =
                              IF pc[u] \in {"idle", "done"} THEN @ ELSE @ \cup {stored}]]
        /\ pc' = [pc EXCEPT ![t] = "done"]
        /\ lastSet' = [called |-> TRUE, logLevel |-> logLevel]
    /\ UNCHANGED <<stderr, lines, exited, exitCode>>

\* GetLevel, lines 65-67.
GetLevel(t) ==
    /\ Idle(t)
    /\ frame' = [frame EXCEPT ![t] =
                    [NoFrame EXCEPT !.fn = "GetLevel", !.T = globalLogLevel,
                                    !.reads = 1,
                                    !.ret = ReturnLevel(globalLogLevel)]]
    /\ pc' = [pc EXCEPT ![t] = "done"]
    /\ UNCHANGED <<globalLogLevel, stderr, lines, exited, exitCode, lastSet>>

\* A call of a message function, up to its call of logFormattedEntry:
\* lines 99-136, 143-149, 156-157, 163-164 and logEntry, lines 80-85.
CallLog(t, fns, messages, argLists) ==
    /\ Idle(t)
    /\ MayLog(t)
    /\ \E fn \in fns, message \in messages, args \in argLists :
        frame' = [frame EXCEPT ![t] =
                    [NoFrame EXCEPT
                       !.fn = fn, !.message = message, !.args = args,
                       !.logLevel = FnLevel(fn),
                       !.format = IF CallsLogFormattedEntry(fn) THEN message
                                  ELSE logEntryString(message, args),
                       !.fargs = IF CallsLogFormattedEntry(fn) THEN args ELSE << >>,
                       !.base = Len(stderr), !.held = {globalLogLevel}]]
    /\ pc' = [pc EXCEPT ![t] = "logFormattedEntry"]
    /\ UNCHANGED <<globalLogLevel, stderr, lines, exited, exitCode, lastSet>>

\* A call of Errore, Criticale or Fatale, up to logErrorEntry's call of
\* logEntry or its return of nil: lines 139-141, 151-153, 170-171, 89-95.
CallErr(t, fns, errs) ==
    /\ Idle(t)
    /\ MayLog(t)
    /\ \E fn \in fns, err \in errs :
        LET f == [NoFrame EXCEPT !.fn = fn, !.err = err, !.logLevel = FnLevel(fn),
                                 !.base = Len(stderr), !.held = {globalLogLevel}] IN
        IF IsNil(err)
        THEN /\ frame' = [frame EXCEPT ![t] =
                            [f EXCEPT !.ret = IF fn \in FatalFns THEN NoReturn
                                              ELSE ReturnError(NilError)]]
             /\ pc' = [pc EXCEPT ![t] = IF fn \in FatalFns THEN "os.Exit" ELSE "done"]
        ELSE /\ frame' = [frame EXCEPT ![t] =
                            [f EXCEPT !.format = logEntryString(ErrorText(err), << >>)]]
             /\ pc' = [pc EXCEPT ![t] = "logFormattedEntry"]
    /\ UNCHANGED <<globalLogLevel, stderr, lines, exited, exitCode, lastSet>>

\* logFormattedEntry, lines 71-73: the one read of globalLogLevel.  The
\* variable is an int that no lock guards; a load of it and a store to it are
\* single machine-word accesses, so a load racing with a store returns the
\* value before the store or the value after it, as the two steps fall.
CheckLevel(t) ==
    /\ ~exited
    /\ pc[t] = "logFormattedEntry"
    /\ frame' = [frame EXCEPT ![t].T = globalLogLevel, ![t].reads = @ + 1]
    /\ pc' = [pc EXCEPT ![t] =
                IF Suppressed(frame[t].logLevel, globalLogLevel)
                THEN "return" ELSE "Fprintln"]
    /\ UNCHANGED <<globalLogLevel, stderr, lines, exited, exitCode, lastSet>>

\* logFormattedEntry, lines 74-76: render, write one line, return it.
Emit(t) ==
    /\ ~exited
    /\ pc[t] = "Fprintln"
    /\ \E now \in Times :
        LET entryString ==
              EntryString(now, frame[t].logLevel, frame[t].format, frame[t].fargs) IN
        /\ stderr' = Append(stderr, entryString)
        /\ lines' = [lines EXCEPT ![t] = @ + 1]
        /\ frame' = [frame EXCEPT ![t].out = entryString, ![t].writes = @ + 1]
    /\ pc' = [pc EXCEPT ![t] = "return"]
    /\ UNCHANGED <<globalLogLevel, exited, exitCode, lastSet>>

\* The entry point's own return statement, or, in the FATAL family, its
\* arrival at os.Exit.
Return(t) ==
    /\ ~exited
    /\ pc[t] = "return"
    /\ LET f == frame[t] IN
       IF f.fn \in FatalFns /\ f.stage = 1
       THEN /\ pc' = [pc EXCEPT ![t] = "os.Exit"]
            /\ UNCHANGED frame
       ELSE /\ pc' = [pc EXCEPT ![t] = "done"]
            /\ frame' = [frame EXCEPT ![t].ret =
                 IF f.fn \in StringFns THEN ReturnString(f.out)
                 ELSE IF f.fn \in PassFns
                 THEN ReturnError(logErrorEntryResult(f.err, f.out))
                 ELSE ReturnError(ErrorsNew(f.out))]
    /\ UNCHANGED <<globalLogLevel, stderr, lines, exited, exitCode, lastSet>>

\* os.Exit(1), lines 158, 165, 172, and the statement after it, which runs
\* only if os.Exit comes back: lines 159, 166, 173.
Exit(t) ==
    /\ ~exited
    /\ pc[t] = "os.Exit"
    /\ LET p == OsExit(1)
           f == frame[t] IN
       /\ exited' = p.exited
       /\ exitCode' = p.code
       /\ IF p.exited
          THEN /\ pc' = [pc EXCEPT ![t] = "exited"]
               /\ UNCHANGED frame
          ELSE IF f.fn = "Fatale"
          THEN /\ pc' = [pc EXCEPT ![t] = "done"]
               /\ frame' = [frame EXCEPT ![t].ret = ReturnError(f.err)]
          ELSE /\ pc' = [pc EXCEPT ![t] = "logFormattedEntry"]
               /\ frame' = [frame EXCEPT
                    ![t].stage = 2, ![t].logLevel = CRITICAL,
                    ![t].format = IF f.fn = "Fatalf" THEN f.message
                                  ELSE logEntryString(f.message, f.args),
                    ![t].fargs = IF f.fn = "Fatalf" THEN f.args ELSE << >>]
    /\ UNCHANGED <<globalLogLevel, stderr, lines, lastSet>>

Next ==
    \E t \in SeqCallers :
        \/ SetLevel(t, Levels)
        \/ GetLevel(t)
        \/ CallLog(t, MsgFns, Messages, ArgLists)
        \/ CallErr(t, ErrFns, Errors)
        \/ CheckLevel(t)
        \/ Emit(t)
        \/ Return(t)
        \/ Exit(t)

Spec == Init /\ [][Next]_vars

\* A call that has started keeps running: the Go scheduler does not park a
\* runnable goroutine for ever, and no step of a call blocks on another
\* caller.  Nothing obliges a caller to start a call.
Step(t) == CheckLevel(t) \/ Emit(t) \/ Return(t) \/ Exit(t)

\* The calls of the FATAL family with every input, after any calls of the
\* other entry points (those with one message and no arguments: what they
\* leave behind for a later call is the threshold and the lines on standard
\* error).
FatalNext ==
    \E t \in SeqCallers :
        \/ SetLevel(t, Levels)
        \/ GetLevel(t)
        \/ CallLog(t, FatalMsgFns, Messages, ArgLists)
        \/ CallLog(t, MsgFns \ FatalMsgFns, {<<"a">>}, {<< >>})
        \/ CallErr(t, ErrFns, Errors)
        \/ Step(t)

FairSpec ==
    Init /\ [][FatalNext]_vars /\ \A t \in SeqCallers : WF_vars(Step(t))

\* Two callers on their own goroutines, nothing ordering a step of one
\* against a step of the other.
ConcInit == InitFor(ConcCallers)

ConcLevels == {FATAL - OutOfRange, ERROR, DEBUG}
ConcFns == {"Info", "Errorf", "Fatal"}
ConcErrors == {NilError, CallerError(<<"a">>)}

ConcNext ==
    \E t \in ConcCallers :
        \/ SetLevel(t, ConcLevels)
        \/ GetLevel(t)
        \/ CallLog(t, ConcFns, {<<"a">>}, {<< >>})
        \/ CallErr(t, {"Errore"}, ConcErrors)
        \/ Step(t)

ConcSpec == ConcInit /\ [][ConcNext]_vars

\* ------------------------------------------------------------ claims

\* What a finished call of caller t left on standard error.
Wrote(t) == Len(stderr) - frame[t].base
LastLine == stderr[Len(stderr)]

\* A line is "<date> <time> <LABEL> <message>": the message starts at token 7.
MessagePart(line) == SubSeq(line, 7, Len(line))
LabelPart(line) == line[5]

Contains(line, text) ==
    \E k \in 0..(Len(line) - Len(text)) : SubSeq(line, k + 1, k + Len(text)) = text

\* logFormattedEntry has returned to the entry point, or further.
PastLog(t) == pc[t] \in {"return", "done", "os.Exit", "exited"}

\* C1: a call of a plain or formatted entry point at severity S, the
\* threshold being T (any integer SetLevel stored), has written exactly one
\* line to standard error if S <= T and nothing if S > T.
C1_Gate ==
    \A t \in Callers :
        frame[t].fn \in MsgFns /\ PastLog(t) =>
            /\ FnLevel(frame[t].fn) <= globalLogLevel
                 => Wrote(t) = 1 /\ LabelPart(LastLine) = String(FnLevel(frame[t].fn))
            /\ FnLevel(frame[t].fn) > globalLogLevel => Wrote(t) = 0

C1_Witness ==
    \E t \in Callers :
        /\ pc[t] = "done" /\ frame[t].fn = "Debugf"
        /\ globalLogLevel = DEBUG + 1 /\ Wrote(t) = 1

\* A FATAL-family call is under way or has ended the process.
InFatal(t) == frame[t].fn \in FatalFns /\ pc[t] # "idle"

\* C2: every call of Fatal, Fatalf or Fatale (Fatale(nil) included) ends in
\* the process exiting with a non-zero status; the call never returns to
\* its caller, never reaches the statement after os.Exit and writes at most
\* one line, and once the process has exited nothing changes any more.
C2_FatalTerminates ==
    /\ [](\A t \in SeqCallers :
            /\ InFatal(t) => /\ pc[t] # "done"
                             /\ frame[t].stage = 1
                             /\ Wrote(t) \in {0, 1}
            /\ exited => exitCode # 0 /\ InFatal(t) /\ pc[t] = "exited")
    /\ [][exited => UNCHANGED vars]_vars
    /\ \A t \in SeqCallers : InFatal(t) ~> (exited /\ exitCode # 0)

C2_Witness ==
    \E t \in Callers :
        /\ exited /\ exitCode = 1 /\ pc[t] = "exited"
        /\ frame[t].fn = "Fatale" /\ frame[t].err = NilError /\ Wrote(t) = 0

\* C3: GetLevel returns the argument of the latest SetLevel, whatever
\* integer it was, and DEBUG if there was none; the threshold is that value,
\* so no other call (GetLevel included) changes it.
C3_SetGet ==
    LET expected == IF lastSet.called THEN lastSet.logLevel ELSE DEBUG IN
    /\ globalLogLevel = expected
    /\ \A t \in Callers :
         pc[t] = "done" /\ frame[t].fn = "GetLevel" =>
            frame[t].ret = ReturnLevel(expected)

C3_Witness ==
    \E t \in Callers :
        /\ pc[t] = "done" /\ frame[t].fn = "GetLevel"
        /\ lastSet.called /\ frame[t].ret.level = FATAL - 1

\* C4: Warning, Warningf, Error, Errorf, Critical and Criticalf always
\* return a non-nil error; suppressed, they write nothing and the error's
\* text is empty; emitted, the error's text is the line written.
C4_WrapReturnsError ==
    \A t \in Callers :
        frame[t].fn \in WrapFns /\ pc[t] = "done" =>
            /\ frame[t].ret.kind = "error"
            /\ frame[t].ret.err # NilError
            /\ FnLevel(frame[t].fn) > globalLogLevel
                 => Wrote(t) = 0 /\ frame[t].ret.err.text = << >>
            /\ FnLevel(frame[t].fn) <= globalLogLevel
                 => Wrote(t) = 1 /\ frame[t].ret.err.text = LastLine

C4_Witness ==
    \E t \in Callers :
        /\ pc[t] = "done" /\ frame[t].fn = "Warning" /\ globalLogLevel = FATAL
        /\ frame[t].ret.err # NilError /\ frame[t].ret.err.text = << >>

\* C5: Errore(nil) and Criticale(nil) return nil, write nothing and leave
\* the threshold as it was, under every threshold.
C5_NilPassthrough ==
    \A t \in Callers :
        frame[t].fn \in PassFns /\ frame[t].err = NilError /\ pc[t] = "done" =>
            /\ frame[t].ret = ReturnError(NilError)
            /\ Wrote(t) = 0
            /\ frame[t].held = {globalLogLevel}

C5_Witness ==
    \E t \in Callers :
        /\ pc[t] = "done" /\ frame[t].fn = "Criticale" /\ frame[t].err = NilError
        /\ globalLogLevel = DEBUG /\ frame[t].ret = ReturnError(NilError)

\* C6: Errore(err) and Criticale(err) with a non-nil err return that very
\* err, and a line containing err's text is written exactly when the level
\* is <= the threshold.
C6_Passthrough ==
    \A t \in Callers :
        frame[t].fn \in PassFns /\ frame[t].err # NilError /\ pc[t] = "done" =>
            /\ frame[t].ret = ReturnError(frame[t].err)
            /\ (Wrote(t) = 1) <=> (FnLevel(frame[t].fn) <= globalLogLevel)
            /\ Wrote(t) \in {0, 1}
            /\ Wrote(t) = 1 => Contains(LastLine, frame[t].err.text)

\* C7: the message part of the line Fatalf writes is the template with the
\* arguments substituted, as Criticalf renders it.
C7_FatalfFormats ==
    \A t \in Callers :
        frame[t].fn = "Fatalf" /\ PastLog(t) /\ Wrote(t) = 1 =>
            MessagePart(LastLine) = Sprintf(frame[t].message, frame[t].args)

\* The message followed by each argument's text, each after one space.
RECURSIVE Concatenation(_, _)
Concatenation(message, args) ==
    IF args = << >> THEN message
    ELSE Concatenation(message \o <<" ">> \o Head(args).text, Tail(args))

ConcatenationFns ==
    {"Debug", "Info", "Notice", "Warning", "Error", "Critical", "Fatal"}

\* C8: in the concatenation convention the message part of an emitted line
\* is the message followed by each argument's text, each after one space,
\* with no placeholder interpreted.
C8_Concatenation ==
    \A t \in Callers :
        PastLog(t) /\ Wrote(t) = 1 =>
            /\ frame[t].fn \in ConcatenationFns =>
                 MessagePart(LastLine) = Concatenation(frame[t].message, frame[t].args)
            /\ frame[t].fn \in ErrFns =>
                 MessagePart(LastLine) = frame[t].err.text

\* C9 as stated: a Fatal, Fatalf or Fatale call that has an entry to log
\* has written it by the time the process exits, whatever the threshold.
C9_FatalAlwaysEmits ==
    \A t \in Callers :
        /\ frame[t].fn \in FatalFns /\ pc[t] = "exited"
        /\ frame[t].fn = "Fatale" => frame[t].err # NilError
        => Wrote(t) = 1 /\ LabelPart(LastLine) = "FATAL"

\* C9 amended: by the time the process exits, the call has written its
\* FATAL entry exactly when the threshold is >= FATAL (and, for Fatale, the
\* error is not nil); otherwise it has written nothing.
C9_FatalEmitsWhenPermitted ==
    \A t \in Callers :
        frame[t].fn \in FatalFns /\ pc[t] = "exited" =>
            IF globalLogLevel >= FATAL
               /\ (frame[t].fn = "Fatale" => frame[t].err # NilError)
            THEN Wrote(t) = 1 /\ LabelPart(LastLine) = "FATAL"
            ELSE Wrote(t) = 0

C9_Witness ==
    \E t \in Callers :
        /\ pc[t] = "exited" /\ frame[t].fn = "Fatal" /\ globalLogLevel = FATAL
        /\ Wrote(t) = 1 /\ LabelPart(LastLine) = "FATAL"

\* The call of caller t entered logFormattedEntry (every log call but the
\* passthrough of a nil error) and is past its gate.
Gated(t) ==
    /\ frame[t].fn \in MsgFns \cup ErrFns
    /\ frame[t].fn \in ErrFns => frame[t].err # NilError
    /\ pc[t] \in {"Fprintln", "return", "done", "os.Exit", "exited"}

\* C10: a log call running beside other callers' SetLevel and log calls
\* reads the threshold once and writes at most one line; it emits or
\* suppresses as (S <= T) for a value T the threshold held at some moment
\* between the call's start and its end; and the string logFormattedEntry
\* returns is non-empty exactly when the call wrote a line.
C10_OutcomeOfAHeldValue ==
    \A t \in Callers :
        /\ frame[t].reads <= 1 /\ frame[t].writes <= 1
        /\ Gated(t) =>
             /\ frame[t].reads = 1
             /\ \E T \in frame[t].held :
                 (pc[t] = "Fprintln" \/ frame[t].writes = 1)
                     <=> (frame[t].logLevel <= T)
        /\ Gated(t) /\ pc[t] # "Fprintln" =>
             ((frame[t].out # << >>) <=> (frame[t].writes = 1))

\* A call that wrote its line although the threshold, lowered by the other
\* caller between the read and the write, no longer admits it, beside a
\* line of the other caller.
C10_Witness ==
    \E t, u \in Callers :
        /\ t # u
        /\ pc[t] = "done" /\ frame[t].fn = "Info" /\ frame[t].writes = 1
        /\ frame[t].held = {DEBUG, ERROR} /\ globalLogLevel = ERROR
        /\ Len(stderr) = 2 /\ LabelPart(stderr[1]) = "ERROR"
        /\ LabelPart(stderr[2]) = "INFO"

====
